---- MODULE Spec2Model ----
(***************************************************************************)
(* Model of nx_cfg_parser.py: main() and parseSystemSettings(path, size).  *)
(* A file is a sequence of bytes (0..255); file offset k is file[k + 1].   *)
(* Text (decoded names, output lines) is a sequence of code points.        *)
(* stdout is the sequence `out` of printed lines, stderr the sequence      *)
(* `err` of eprint() diagnostics.  An uncaught Python exception ends the   *)
(* run in pc = "raised".                                                   *)
(***************************************************************************)
EXTENDS Integers, Sequences, FiniteSets, TLC

\* ------------------------------------------------------------------------
\* Bounds of the input space
\* ------------------------------------------------------------------------

\* Largest number of chunks (records or junk) after the 4-byte header.
MaxRecords == 3

\* ------------------------------------------------------------------------
\* Program constants
\* ------------------------------------------------------------------------

CFG_TYPE_STR == 1

CFG_TYPE_U8 == 2

CFG_TYPE_U32 == 3

\* The keys of cfg_type_dict.
KnownTypes == {CFG_TYPE_STR, CFG_TYPE_U8, CFG_TYPE_U32}

\* ------------------------------------------------------------------------
\* Bytes, integers and text
\* ------------------------------------------------------------------------

Min(a, b) == IF a < b THEN a ELSE b

\* struct.unpack('<I', b)[0] for a 4-byte b.
UnpackU32(b) == b[1] + 256 * b[2] + 65536 * b[3] + 16777216 * b[4]

\* The 4 little-endian bytes of n (what the container format stores).
PackU32(n) == << n % 256, (n \div 256) % 256, (n \div 65536) % 256, (n \div 16777216) % 256 >>

\* bytes.decode('utf-8') succeeds on b.
RECURSIVE Utf8Ok(_)
Utf8Ok(b) ==
    IF b = << >> THEN TRUE
    ELSE LET c == b[1]
             n == Len(b)
             Cont(i) == i <= n /\ b[i] \in 128..191
             Rest(k) == SubSeq(b, k + 1, n)
         IN  IF c < 128 THEN Utf8Ok(Rest(1))
             ELSE IF c \in 194..223 THEN Cont(2) /\ Utf8Ok(Rest(2))
             ELSE IF c = 224 THEN n >= 2 /\ b[2] \in 160..191 /\ Cont(3) /\ Utf8Ok(Rest(3))
             ELSE IF c = 237 THEN n >= 2 /\ b[2] \in 128..159 /\ Cont(3) /\ Utf8Ok(Rest(3))
             ELSE IF c \in 225..239 THEN Cont(2) /\ Cont(3) /\ Utf8Ok(Rest(3))
             ELSE IF c = 240 THEN n >= 2 /\ b[2] \in 144..191 /\ Cont(3) /\ Cont(4) /\ Utf8Ok(Rest(4))
             ELSE IF c = 244 THEN n >= 2 /\ b[2] \in 128..143 /\ Cont(3) /\ Cont(4) /\ Utf8Ok(Rest(4))
             ELSE IF c \in 241..243 THEN Cont(2) /\ Cont(3) /\ Cont(4) /\ Utf8Ok(Rest(4))
             ELSE FALSE

\* bytes.decode('utf-8') of a b with Utf8Ok(b): the code points.
RECURSIVE Utf8Decode(_)
Utf8Decode(b) ==
    IF b = << >> THEN << >>
    ELSE LET c == b[1]
             n == Len(b)
             Rest(k) == SubSeq(b, k + 1, n)
         IN  IF c < 128 THEN << c >> \o Utf8Decode(Rest(1))
             ELSE IF c < 224
                  THEN << (c - 192) * 64 + (b[2] - 128) >> \o Utf8Decode(Rest(2))
             ELSE IF c < 240
                  THEN << (c - 224) * 4096 + (b[2] - 128) * 64 + (b[3] - 128) >>
                       \o Utf8Decode(Rest(3))
             ELSE << (c - 240) * 262144 + (b[2] - 128) * 4096 + (b[3] - 128) * 64
                     + (b[4] - 128) >> \o Utf8Decode(Rest(4))

RECURSIVE LStrip(_, _)
LStrip(s, ch) == IF s # << >> /\ s[1] = ch THEN LStrip(Tail(s), ch) ELSE s

RECURSIVE RStrip(_, _)
RStrip(s, ch) ==
    IF s # << >> /\ s[Len(s)] = ch THEN RStrip(SubSeq(s, 1, Len(s) - 1), ch) ELSE s

\* str.strip('\x00'): removes the NUL characters at BOTH ends.
StripNul(s) == RStrip(LStrip(s, 0), 0)

\* str.find('!'): 0-based index of the first '!', or -1.
FindBang(s) ==
    IF \E i \in 1..Len(s) : s[i] = 33
    THEN (CHOOSE i \in 1..Len(s) : s[i] = 33 /\ \A j \in 1..(i - 1) : s[j] # 33) - 1
    ELSE -1

\* Python's str ordering: code point by code point, a proper prefix first.
RECURSIVE StrLess(_, _)
StrLess(a, b) ==
    IF b = << >> THEN FALSE
    ELSE IF a = << >> THEN TRUE
    ELSE IF a[1] # b[1] THEN a[1] < b[1]
    ELSE StrLess(Tail(a), Tail(b))

\* A descending order.
KeyBeforeReversed(a, b) == StrLess(b, a)

\* Order used by sorted() on the (key, value) items: keys are distinct, so
\* only the keys are ever compared.
KeyBefore(a, b) == StrLess(a, b)

\* list(collections.OrderedDict(sorted(d.items())).keys()) for the key set S.
RECURSIVE SortedKeys(_)
SortedKeys(S) ==
    IF S = {} THEN << >>
    ELSE LET m == CHOOSE x \in S : \A y \in S \ {x} : KeyBefore(x, y)
         IN  << m >> \o SortedKeys(S \ {m})

\* Lowercase hexadecimal digits.
HexDigitLower(d) == IF d < 10 THEN 48 + d ELSE 87 + d

HexDigit(d) == IF d < 10 THEN 48 + d ELSE 55 + d

\* '%X' % n: uppercase hexadecimal, no padding.
RECURSIVE FormatX(_)
FormatX(n) == IF n < 16 THEN << HexDigit(n) >> ELSE FormatX(n \div 16) \o << HexDigit(n % 16) >>

\* The text printed by print('[%s]' % (owner)).
GroupText(o) == << 91 >> \o o \o << 93 >>

\* printStringSetting: '%s = str!"%s"' with value.decode('utf-8').strip('\x00').
StringText(n, v) ==
    n \o << 32, 61, 32, 115, 116, 114, 33, 34 >> \o StripNul(Utf8Decode(v)) \o << 34 >>

\* printU8Setting: '%s = u8!0x%X' % (name, value[0]).
U8Text(n, v) == n \o << 32, 61, 32, 117, 56, 33, 48, 120 >> \o FormatX(v[1])

\* printU32Setting: '%s = u32!0x%X' % (name, struct.unpack('<I', value)[0]).
U32Text(n, v) == n \o << 32, 61, 32, 117, 51, 50, 33, 48, 120 >> \o FormatX(UnpackU32(v))

\* ------------------------------------------------------------------------
\* The checks of the record walk
\* ------------------------------------------------------------------------

\* A header check that only rejects a declared size below the actual size.
HeaderMismatchLess(settings_size, sz) == settings_size < sz

\* line 48: settings_size != size
HeaderMismatch(settings_size, sz) == settings_size # sz

\* line 56: while offset < size
LoopCond(off, sz) == off < sz

\* line 60: (offset + 4) > size
NameSizeFieldBad(off, sz) == (off + 4) > sz

\* A name_size check that reserves no room for type and value_size.
NameSizeBadNoReserve(off, nsz, sz) == nsz = 0 \/ (off + nsz) > sz

\* A name_size check that forgets the zero case.
NameSizeBadNoZero(off, nsz, sz) == (off + nsz + 5) > sz

\* line 69: (not name_size) or ((offset + name_size + 5) > size)
NameSizeBad(off, nsz, sz) == nsz = 0 \/ (off + nsz + 5) > sz

\* line 75: len(name) != (name_size - 1)
NameLenBad(nm, nsz) == Len(nm) # nsz - 1

\* An owner check that never fires.
OwnerMissingNever(name_start) == name_start < -1

\* line 83: name_start < 0
OwnerMissing(name_start) == name_start < 0

\* A value_size check that is off by one.
ValueFieldBadOffByOne(off, vsz, sz) == (off + vsz) > sz + 1

\* line 96: (offset + value_size) > size
ValueFieldBad(off, vsz, sz) == (off + vsz) > sz

\* A value length check that only rejects values that are too short.
ValueSizeBadShortOnly(ty, v) ==
    (ty = CFG_TYPE_U8 /\ Len(v) < 1) \/ (ty = CFG_TYPE_U32 /\ Len(v) < 4)

\* line 105: U8 needs 1 byte, U32 needs 4
ValueSizeBad(ty, v) ==
    (ty = CFG_TYPE_U8 /\ Len(v) # 1) \/ (ty = CFG_TYPE_U32 /\ Len(v) # 4)

\* line 130-131: cfg_type_dict.get(type, None) is None
NoPrintFunc(ty) == ty \notin KnownTypes

\* ------------------------------------------------------------------------
\* Input files: a header followed by chunks (records, or bytes that are not
\* a whole record)
\* ------------------------------------------------------------------------

\* One record of the container format with the given field contents.
RecLie(nsz, nameBytes, ty, vsz, valBytes) ==
    PackU32(nsz) \o nameBytes \o << ty >> \o PackU32(vsz) \o valBytes

\* A record whose size fields tell the truth.
Rec(nameBytes, ty, valBytes) ==
    RecLie(Len(nameBytes), nameBytes, ty, Len(valBytes), valBytes)

\* "a!x\0", "a!y\0", "b!x\0", "b!z\0"
NameAX == << 97, 33, 120, 0 >>

NameAY == << 97, 33, 121, 0 >>

NameBX == << 98, 33, 120, 0 >>

NameBZ == << 98, 33, 122, 0 >>

\* Records that may appear any number of times in a file.
PlainChunks ==
    { Rec(NameAX, CFG_TYPE_U8, << 10 >>),
      Rec(NameAX, 4, << 1 >>),
      Rec(NameAY, CFG_TYPE_STR, << 97, 0 >>),
      Rec(NameBX, CFG_TYPE_U32, << 10, 0, 0, 0 >>) }

\* Records with unusual name fields.
OddNameChunks ==
    { Rec(nm, CFG_TYPE_U8, << 10 >>) :
        nm \in { << 97, 120, 0 >>,            \* "ax\0": no '!'
                 << 0, 97, 33, 120 >>,        \* leading NUL, no trailing NUL
                 << 97, 33, 0, 120, 0 >>,     \* embedded NUL
                 << 97, 33, 120, 0, 0 >>,     \* two trailing NULs
                 << 97, 33, 195, 169 >>,      \* "a!" + U+00E9, no NUL
                 << 97, 33, 195, 169, 0 >>,   \* "a!" + U+00E9 + NUL
                 << 97, 33, 195, 0 >>,        \* invalid UTF-8
                 << 33, 0 >>,                 \* "!\0": empty owner and name
                 << 0 >>,                     \* "\0"
                 << 97, 33, 120 >>,           \* no NUL at all
                 << 0, 97, 33, 120, 0 >>,     \* leading and trailing NUL
                 << 97, 97, 33, 120, 0 >>,    \* "aa!x\0"
                 << 65, 33, 120, 0 >> } }     \* "A!x\0"

\* Records "b!z" with unusual types and values.
OddValueChunks ==
    { Rec(NameBZ, CFG_TYPE_U8, << >>),
      Rec(NameBZ, CFG_TYPE_U8, << 1, 2 >>),
      Rec(NameBZ, CFG_TYPE_U8, << 195 >>),
      Rec(NameBZ, CFG_TYPE_U8, << 0 >>),
      Rec(NameBZ, CFG_TYPE_U32, << 1, 2, 3 >>),
      Rec(NameBZ, CFG_TYPE_U32, << 1, 2, 3, 4, 5 >>),
      Rec(NameBZ, CFG_TYPE_U32, << 0, 0, 0, 10 >>),
      Rec(NameBZ, CFG_TYPE_U32, << 255, 255, 255, 127 >>),
      Rec(NameBZ, CFG_TYPE_U32, << 0, 0, 0, 0 >>),
      Rec(NameBZ, CFG_TYPE_STR, << >>),
      Rec(NameBZ, CFG_TYPE_STR, << 0, 97 >>),
      Rec(NameBZ, CFG_TYPE_STR, << 97, 0, 98, 0, 0 >>),
      Rec(NameBZ, CFG_TYPE_STR, << 195 >>),
      Rec(NameBZ, CFG_TYPE_STR, << 195, 169 >>),
      Rec(NameBZ, 0, << >>),
      Rec(NameBZ, 255, << 1 >>) }

\* Chunks whose size fields do not match what follows, and stray bytes.
BrokenChunks ==
    { PackU32(0),
      RecLie(200, NameAX, CFG_TYPE_U8, 1, << 10 >>),
      PackU32(4) \o NameAX \o << 2 >>,
      RecLie(4, NameAX, CFG_TYPE_STR, 9, << 97 >>),
      RecLie(4, NameAX, CFG_TYPE_STR, 2, << 97 >>),
      Rec(NameBZ, CFG_TYPE_STR, << >>) \o Rec(NameBX, CFG_TYPE_U8, << 1, 2 >>),
      << 0 >>, << 0, 0 >>, << 0, 0, 0 >> }

SpecialChunks == OddNameChunks \cup OddValueChunks \cup BrokenChunks

RECURSIVE Concat(_)
Concat(ss) == IF ss = << >> THEN << >> ELSE Head(ss) \o Concat(Tail(ss))

PlainSeqs(n) == UNION { [1..k -> PlainChunks] : k \in 0..n }

\* Bodies of at most n chunks, at most one of them special.
BodiesUpTo(n) ==
    { Concat(ps) : ps \in PlainSeqs(n) }
    \cup
    UNION { { Concat(pre) \o s \o Concat(suf) :
                s \in SpecialChunks, suf \in PlainSeqs(n - 1 - Len(pre)) } :
            pre \in PlainSeqs(n - 1) }

Bodies == BodiesUpTo(MaxRecords)

\* The header declares the real length, or one byte less or more.
FilesOf(body) == { PackU32(h) \o body : h \in { Len(body) + 3, Len(body) + 4, Len(body) + 5 } }

Files ==
    { << >>, << 4, 0 >> }
    \cup UNION { FilesOf(b) : b \in Bodies }

\* ------------------------------------------------------------------------
\* State
\* ------------------------------------------------------------------------

VARIABLES
    file,           \* the bytes of the file at `path`
    pc,             \* position of the program
    fstate,         \* "unopened", "open" or "closed": the file object
    pos,            \* the file object's read position
    size,           \* os.path.getsize(path), the argument of parseSystemSettings
    offset,         \* local `offset`
    entry_offset,   \* local `entry_offset` (walk and render)
    name_size,      \* local `name_size`
    name,           \* local `name` (walk and render)
    owner,          \* local `owner` (walk and render)
    type,           \* local `type` (walk and render)
    value_size,     \* local `value_size`
    value,          \* local `value` (walk and render)
    cfg,            \* owner -> (setting name -> (entry_offset, type, value))
    todoOwners,     \* owners of ordered_cfg not yet iterated
    todoNames,      \* names of ordered_owner_cfg not yet iterated
    out,            \* lines printed to stdout
    err,            \* diagnostics printed by eprint()
    reads,          \* every file.read(n) issued: where, how many asked, how many got
    walked          \* one entry per loop iteration: the fields it has read so far

vars == << file, pc, fstate, pos, size, offset, entry_offset, name_size, name, owner,
           type, value_size, value, cfg, todoOwners, todoNames, out, err, reads, walked >>

walkLocals == << offset, entry_offset, name_size, name, owner, type, value_size, value >>

renderState == << todoOwners, todoNames >>

\* A diagnostic line: the condition, the entry offset it names (-1: none) and
\* the other numbers it prints.
Diag(cond, off, args) == [cond |-> cond, off |-> off, args |-> args]

\* A printed line, with the owner / setting it belongs to.
Line(kind, o, n, text) == [kind |-> kind, owner |-> o, name |-> n, text |-> text]

\* file.read(n) at read position p: the bytes returned (short at end of file).
ReadBytes(f, p, n) == SubSeq(f, p + 1, Min(p + n, Len(f)))

ReadLog(p, n, got) == [at |-> p, asked |-> n, got |-> Len(got)]

\* The entry of `walked` for the iteration that starts at off.
NewWalk(off) ==
    [off |-> off, stage |-> "head", name_size |-> 0, raw |-> << >>, owner |-> << >>,
     name |-> << >>, type |-> 0, value_size |-> 0, value |-> << >>]

\* Replace the entry of the current iteration.
SetLast(w, e) == [w EXCEPT ![Len(w)] = e]

Init ==
    /\ file \in Files
    /\ pc = "main"
    /\ fstate = "unopened"
    /\ pos = 0
    /\ size = 0
    /\ offset = 0
    /\ entry_offset = 0
    /\ name_size = 0
    /\ name = << >>
    /\ owner = << >>
    /\ type = 0
    /\ value_size = 0
    /\ value = << >>
    /\ cfg = << >>
    /\ todoOwners = << >>
    /\ todoNames = << >>
    /\ out = << >>
    /\ err = << >>
    /\ reads = << >>
    /\ walked = << >>

\* ------------------------------------------------------------------------
\* main()
\* ------------------------------------------------------------------------

\* A size check that lets a file of exactly 4 bytes through.
SizeTooSmallStrict(sz) == sz < 4

\* line 153: size <= 4
SizeTooSmall(sz) == sz <= 4

\* lines 141-143: no path argument.
MainNoArg ==
    /\ pc = "main"
    /\ err' = Append(err, Diag("NoPath", -1, << >>))
    /\ pc' = "done"
    /\ UNCHANGED << file, fstate, pos, size, walkLocals, cfg, renderState, out, reads, walked >>

\* lines 146-149: the path does not exist or is a directory.
MainBadPath ==
    /\ pc = "main"
    /\ err' = Append(err, Diag("BadPath", -1, << >>))
    /\ pc' = "done"
    /\ UNCHANGED << file, fstate, pos, size, walkLocals, cfg, renderState, out, reads, walked >>

\* lines 152-158: the size check, then the call of parseSystemSettings.
MainSize ==
    /\ pc = "main"
    /\ size' = Len(file)
    /\ IF SizeTooSmall(Len(file))
       THEN /\ err' = Append(err, Diag("InvalidFileSize", -1, << >>))
            /\ pc' = "done"
       ELSE /\ err' = err
            /\ pc' = "open"
    /\ UNCHANGED << file, fstate, pos, walkLocals, cfg, renderState, out, reads, walked >>

\* ------------------------------------------------------------------------
\* parseSystemSettings(path, size)
\* ------------------------------------------------------------------------

\* lines 40-44: open() raises.
OpenFail ==
    /\ pc = "open"
    /\ err' = Append(err, Diag("OpenFailed", -1, << >>))
    /\ pc' = "done"
    /\ UNCHANGED << file, fstate, pos, size, walkLocals, cfg, renderState, out, reads, walked >>

\* line 41: open() succeeds.
OpenOk ==
    /\ pc = "open"
    /\ fstate' = "open"
    /\ pos' = 0
    /\ pc' = "header"
    /\ UNCHANGED << file, size, walkLocals, cfg, renderState, out, err, reads, walked >>

\* lines 47-53: read the header and compare it with size.
ReadHeader ==
    /\ pc = "header"
    /\ LET got == ReadBytes(file, pos, 4)
       IN  /\ pos' = pos + Len(got)
           /\ reads' = Append(reads, ReadLog(pos, 4, got))
           /\ IF Len(got) # 4
              THEN /\ pc' = "raised"
                   /\ UNCHANGED << fstate, offset, err >>
              ELSE IF HeaderMismatch(UnpackU32(got), size)
              THEN /\ err' = Append(err, Diag("SizeMismatch", -1, << >>))
                   /\ fstate' = "closed"
                   /\ pc' = "done"
                   /\ UNCHANGED offset
              ELSE /\ offset' = 4
                   /\ pc' = "loop"
                   /\ UNCHANGED << fstate, err >>
    /\ UNCHANGED << file, size, entry_offset, name_size, name, owner, type, value_size,
                    value, cfg, renderState, out, walked >>

\* lines 56-62: the loop test, entry_offset and the first safety check.
LoopHead ==
    /\ pc = "loop"
    /\ IF LoopCond(offset, size)
       THEN /\ entry_offset' = offset
            /\ walked' = Append(walked, NewWalk(offset))
            /\ IF NameSizeFieldBad(offset, size)
               THEN /\ err' = Append(err, Diag("TruncatedHeader", offset, << size - offset >>))
                    /\ pc' = "close"
               ELSE /\ err' = err
                    /\ pc' = "namesize"
       ELSE /\ pc' = "close"
            /\ UNCHANGED << entry_offset, walked, err >>
    /\ UNCHANGED << file, fstate, pos, size, offset, name_size, name, owner, type,
                    value_size, value, cfg, renderState, out, reads >>

\* lines 64-71: read name_size and check it.
ReadNameSize ==
    /\ pc = "namesize"
    /\ LET got == ReadBytes(file, pos, 4)
       IN  /\ pos' = pos + Len(got)
           /\ reads' = Append(reads, ReadLog(pos, 4, got))
           /\ IF Len(got) # 4
              THEN /\ pc' = "raised"
                   /\ UNCHANGED << name_size, offset, err, walked >>
              ELSE LET nsz == UnpackU32(got)
                   IN  /\ name_size' = nsz
                       /\ offset' = offset + 4
                       /\ walked' = SetLast(walked,
                              [walked[Len(walked)] EXCEPT !.stage = "namesize", !.name_size = nsz])
                       /\ IF NameSizeBad(offset + 4, nsz, size)
                          THEN /\ err' = Append(err, Diag("TruncatedName", entry_offset,
                                                         << size - (offset + 4), nsz >>))
                               /\ pc' = "close"
                          ELSE /\ err' = err
                               /\ pc' = "name"
    /\ UNCHANGED << file, fstate, size, entry_offset, name, owner, type, value_size, value,
                    cfg, renderState, out >>

\* A cursor that is not moved past the name.
AfterNameStuck(off, nsz) == off

\* line 79: offset += name_size
AfterName(off, nsz) == off + nsz

\* lines 73-79: read the name, decode it, strip it, check its length.
ReadName ==
    /\ pc = "name"
    /\ LET got == ReadBytes(file, pos, name_size)
           w   == [walked[Len(walked)] EXCEPT !.stage = "nameread", !.raw = got]
       IN  /\ pos' = pos + Len(got)
           /\ reads' = Append(reads, ReadLog(pos, name_size, got))
           /\ IF ~Utf8Ok(got)
              THEN /\ pc' = "raised"
                   /\ walked' = SetLast(walked, w)
                   /\ UNCHANGED << name, offset, err >>
              ELSE LET nm == StripNul(Utf8Decode(got))
                   IN  /\ name' = nm
                       /\ IF NameLenBad(nm, name_size)
                          THEN /\ err' = Append(err, Diag("MalformedName", entry_offset, << >>))
                               /\ pc' = "close"
                               /\ walked' = SetLast(walked, w)
                               /\ UNCHANGED offset
                          ELSE /\ offset' = AfterName(offset, name_size)
                               /\ pc' = "split"
                               /\ walked' = SetLast(walked, [w EXCEPT !.stage = "named"])
                               /\ err' = err
    /\ UNCHANGED << file, fstate, size, entry_offset, name_size, owner, type, value_size,
                    value, cfg, renderState, out >>

\* lines 81-89: find the '!' and split the name into owner and setting name.
SplitName ==
    /\ pc = "split"
    /\ LET name_start == FindBang(name)
       IN  IF OwnerMissing(name_start)
           THEN /\ err' = Append(err, Diag("MissingOwner", entry_offset, << >>))
                /\ pc' = "close"
                /\ UNCHANGED << owner, name, walked >>
           ELSE /\ owner' = SubSeq(name, 1, name_start)
                /\ name' = SubSeq(name, name_start + 2, Len(name))
                /\ walked' = SetLast(walked,
                       [walked[Len(walked)] EXCEPT !.stage = "owner",
                                                   !.owner = SubSeq(name, 1, name_start),
                                                   !.name = SubSeq(name, name_start + 2, Len(name))])
                /\ pc' = "typesize"
                /\ err' = err
    /\ UNCHANGED << file, fstate, pos, size, offset, entry_offset, name_size, type,
                    value_size, value, cfg, renderState, out, reads >>

\* lines 91-98: read type and value_size and check value_size.
ReadTypeSize ==
    /\ pc = "typesize"
    /\ LET got == ReadBytes(file, pos, 5)
       IN  /\ pos' = pos + Len(got)
           /\ reads' = Append(reads, ReadLog(pos, 5, got))
           /\ IF Len(got) # 5
              THEN /\ pc' = "raised"
                   /\ UNCHANGED << type, value_size, offset, err, walked >>
              ELSE LET ty  == got[1]
                       vsz == UnpackU32(SubSeq(got, 2, 5))
                   IN  /\ type' = ty
                       /\ value_size' = vsz
                       /\ offset' = offset + 5
                       /\ walked' = SetLast(walked,
                              [walked[Len(walked)] EXCEPT !.stage = "typed", !.type = ty,
                                                          !.value_size = vsz])
                       /\ IF ValueFieldBad(offset + 5, vsz, size)
                          THEN /\ err' = Append(err, Diag("TruncatedValue", entry_offset,
                                                         << size - (offset + 5), vsz >>))
                               /\ pc' = "close"
                          ELSE /\ err' = err
                               /\ pc' = "value"
    /\ UNCHANGED << file, fstate, size, entry_offset, name_size, name, owner, value, cfg,
                    renderState, out >>

\* lines 100-107: read the value and check its length against the type.
ReadValue ==
    /\ pc = "value"
    /\ LET got == ReadBytes(file, pos, value_size)
       IN  /\ pos' = pos + Len(got)
           /\ reads' = Append(reads, ReadLog(pos, value_size, got))
           /\ value' = got
           /\ offset' = offset + value_size
           /\ walked' = SetLast(walked,
                  [walked[Len(walked)] EXCEPT !.stage = "valued", !.value = got])
           /\ IF ValueSizeBad(type, got)
              THEN /\ err' = Append(err, Diag("ValueSizeMismatch", entry_offset, << >>))
                   /\ pc' = "close"
              ELSE /\ err' = err
                   /\ pc' = "collect"
    /\ UNCHANGED << file, fstate, size, entry_offset, name_size, name, owner, type,
                    value_size, cfg, renderState, out >>

\* A mapping update that keeps the entry a pair already has.
CfgUpdateKeepFirst(c, o, n, props) ==
    LET owner_cfg == IF o \in DOMAIN c THEN c[o] ELSE << >>
        updated   == [k \in DOMAIN owner_cfg \cup {n} |->
                         IF k \in DOMAIN owner_cfg THEN owner_cfg[k] ELSE props]
    IN  [k \in DOMAIN c \cup {o} |-> IF k = o THEN updated ELSE c[k]]

\* lines 110-116 applied to a mapping c: the entry of (o, n) becomes props.
CfgUpdate(c, o, n, props) ==
    LET owner_cfg == IF o \in DOMAIN c THEN c[o] ELSE << >>
        updated   == [k \in DOMAIN owner_cfg \cup {n} |-> IF k = n THEN props ELSE owner_cfg[k]]
    IN  [k \in DOMAIN c \cup {o} |-> IF k = o THEN updated ELSE c[k]]

\* lines 109-116: store the entry, then go back to the loop test.
Collect ==
    /\ pc = "collect"
    /\ cfg' = CfgUpdate(cfg, owner, name,
                        [entry_offset |-> entry_offset, type |-> type, value |-> value])
    /\ walked' = SetLast(walked, [walked[Len(walked)] EXCEPT !.stage = "collected"])
    /\ pc' = "loop"
    /\ UNCHANGED << file, fstate, pos, size, walkLocals, renderState, out, err, reads >>

\* lines 118-121: reached when the loop ends and on every break.
CloseAndSort ==
    /\ pc = "close"
    /\ fstate' = "closed"
    /\ todoOwners' = SortedKeys(DOMAIN cfg)
    /\ pc' = "render"
    /\ UNCHANGED << file, pos, size, walkLocals, cfg, todoNames, out, err, reads, walked >>

\* lines 122-125: the next owner, its header line, its sorted entries.
RenderOwner ==
    /\ pc = "render"
    /\ IF todoOwners = << >>
       THEN /\ pc' = "done"
            /\ UNCHANGED << owner, out, todoNames >>
       ELSE /\ owner' = Head(todoOwners)
            /\ out' = Append(out, Line("group", Head(todoOwners), << >>,
                                       GroupText(Head(todoOwners))))
            /\ todoNames' = SortedKeys(DOMAIN cfg[Head(todoOwners)])
            /\ pc' = "entry"
    /\ UNCHANGED << file, fstate, pos, size, offset, entry_offset, name_size, name, type,
                    value_size, value, cfg, todoOwners, err, reads, walked >>

\* print_func(name, value) raises instead of printing.
PrintRaises(ty, v) ==
    \/ ty = CFG_TYPE_STR /\ ~Utf8Ok(v)
    \/ ty = CFG_TYPE_U8 /\ Len(v) = 0
    \/ ty = CFG_TYPE_U32 /\ Len(v) # 4

\* The text print_func(name, value) prints.
SettingText(ty, n, v) ==
    IF ty = CFG_TYPE_STR THEN StringText(n, v)
    ELSE IF ty = CFG_TYPE_U8 THEN U8Text(n, v)
    ELSE U32Text(n, v)

\* A render that skips the entry of unknown type and goes on.
OnUnknownTypeSkip(names) == [pc |-> "entry", names |-> Tail(names)]

\* line 133: return; the entries still to render are left as they are.
OnUnknownType(names) == [pc |-> "done", names |-> names]

\* lines 126-137: the next entry of the owner, or the blank line after the last.
RenderEntry ==
    /\ pc = "entry"
    /\ IF todoNames = << >>
       THEN /\ out' = Append(out, Line("blank", owner, << >>, << >>))
            /\ todoOwners' = Tail(todoOwners)
            /\ pc' = "render"
            /\ UNCHANGED << name, entry_offset, type, value, todoNames, err >>
       ELSE LET n     == Head(todoNames)
                props == cfg[owner][n]
            IN  /\ name' = n
                /\ entry_offset' = props.entry_offset
                /\ type' = props.type
                /\ value' = props.value
                /\ IF NoPrintFunc(props.type)
                   THEN /\ err' = Append(err, Diag("UnknownType", props.entry_offset,
                                                  << props.type >>))
                        /\ pc' = OnUnknownType(todoNames).pc
                        /\ todoNames' = OnUnknownType(todoNames).names
                        /\ UNCHANGED << out, todoOwners >>
                   ELSE IF PrintRaises(props.type, props.value)
                   THEN /\ pc' = "raised"
                        /\ UNCHANGED << out, todoOwners, todoNames, err >>
                   ELSE /\ out' = Append(out, Line("setting", owner, n,
                                              SettingText(props.type, n, props.value)))
                        /\ todoNames' = Tail(todoNames)
                        /\ pc' = "entry"
                        /\ UNCHANGED << todoOwners, err >>
    /\ UNCHANGED << file, fstate, pos, size, offset, name_size, owner, value_size, cfg,
                    reads, walked >>

Next ==
    \/ MainNoArg
    \/ MainBadPath
    \/ MainSize
    \/ OpenFail
    \/ OpenOk
    \/ ReadHeader
    \/ LoopHead
    \/ ReadNameSize
    \/ ReadName
    \/ SplitName
    \/ ReadTypeSize
    \/ ReadValue
    \/ Collect
    \/ CloseAndSort
    \/ RenderOwner
    \/ RenderEntry

Spec == Init /\ [][Next]_vars

\* The program is sequential and has no suspension point: while a step is
\* possible, one is taken.
\* The files with a matching header and one chunk less than the bound.
ShortFiles == { PackU32(Len(b) + 4) \o b : b \in BodiesUpTo(MaxRecords - 1) }

ShortInit == file \in ShortFiles /\ Init

FairSpec == ShortInit /\ [][Next]_vars /\ WF_vars(Next)

\* ------------------------------------------------------------------------
\* Vocabulary of the properties
\* ------------------------------------------------------------------------

\* The fatal conditions of the record walk.
WalkConds ==
    { "TruncatedHeader", "TruncatedName", "MalformedName", "MissingOwner", "TruncatedValue",
      "ValueSizeMismatch" }

WalkFatal == \E i \in DOMAIN err : err[i].cond \in WalkConds

\* The little-endian u32 in the first 4 bytes of the file.
DeclaredSize == UnpackU32(SubSeq(file, 1, 4))

\* parseSystemSettings has read a header that matches the actual size.
WalkEntered == fstate # "unopened" /\ pc # "header" /\ DeclaredSize = size

\* The walk has left its loop (normally or by break) and control is at or
\* after file.close().
AfterWalk == WalkEntered /\ pc \in { "close", "render", "entry", "done" }

\* A diagnostic of condition c naming entry offset off was printed.
Reported(c, off) == \E i \in DOMAIN err : err[i].cond = c /\ err[i].off = off

\* Some entry of the mapping was collected from the record at off.
InCfg(off) == \E o \in DOMAIN cfg : \E n \in DOMAIN cfg[o] : cfg[o][n].entry_offset = off

\* The stages of a walked record, in the order the walk goes through them.
StageNo(st) ==
    CASE st = "head" -> 0
      [] st = "namesize" -> 1
      [] st = "nameread" -> 2
      [] st = "named" -> 3
      [] st = "owner" -> 4
      [] st = "typed" -> 5
      [] st = "valued" -> 6
      [] st = "collected" -> 7

\* The iteration of walked[i] is still between two of its steps.
InProgress(i) ==
    i = Len(walked) /\ pc \in { "namesize", "name", "split", "typesize", "value", "collect" }

\* ------------------------------------------------------------------------
\* Properties
\* ------------------------------------------------------------------------

\* C1: with a matching header, once the record walk has reported any of its
\* fatal conditions, nothing is ever written to the output stream.
C1_NoPartialOutput == (WalkEntered /\ WalkFatal) => out = << >>

\* C2: when the decode has ended, every record the walk took in whose type
\* tag is not STR, U8 or U32 has an UnknownType diagnostic naming its entry
\* offset and its type byte.
C2_UnknownTypeReported ==
    pc = "done" =>
        \A i \in DOMAIN walked :
            (walked[i].stage = "collected" /\ walked[i].type \notin {1, 2, 3})
                => \E j \in DOMAIN err :
                       err[j] = Diag("UnknownType", walked[i].off, << walked[i].type >>)

\* C3: the name field of every record whose name the walk accepted ends in
\* exactly one NUL byte: the last byte is 0 and no other byte is 0.
C3_NameEndsInOneNul ==
    \A i \in DOMAIN walked :
        StageNo(walked[i].stage) >= 3 =>
            LET raw == walked[i].raw
            IN  /\ raw # << >>
                /\ raw[Len(raw)] = 0
                /\ \A k \in 1..(Len(raw) - 1) : raw[k] # 0

\* C4: if the u32 in the first 4 bytes differs from the actual size, then
\* once the header is read the decode has ended with the one diagnostic
\* SizeMismatch, no record walked, one read issued and nothing printed.
C4_SizeMismatch ==
    (fstate # "unopened" /\ pc # "header" /\ DeclaredSize # size)
        => /\ pc = "done"
           /\ err = << Diag("SizeMismatch", -1, << >>) >>
           /\ out = << >>
           /\ walked = << >>
           /\ Len(reads) = 1
           /\ pos = 4

C4_Witness ==
    /\ pc = "done"
    /\ fstate = "closed"
    /\ Len(file) > 14
    /\ DeclaredSize # size
    /\ err # << >>

\* C5: the walk leaves its loop without a diagnostic only with the cursor
\* equal to the declared size, right after a record that was consumed in
\* full and ends exactly there.
C5_CleanEndAtDeclaredSize ==
    (AfterWalk /\ ~WalkFatal)
        => /\ offset = size
           /\ pos = size
           /\ walked # << >>
           /\ LET w == walked[Len(walked)]
              IN  /\ w.stage = "collected"
                  /\ Len(w.raw) = w.name_size
                  /\ Len(w.value) = w.value_size
                  /\ w.off + 4 + w.name_size + 5 + w.value_size = size

C5_Witness ==
    /\ pc = "done"
    /\ WalkEntered
    /\ err = << >>
    /\ Len(walked) >= 2
    /\ offset = size

\* C6: once a diagnostic has been printed, no further diagnostic is printed,
\* no further byte is read, no further record is walked and nothing more
\* is printed.
C6_OneDiagnosticThenStop ==
    [][ err # << >> => (err' = err /\ out' = out /\ pos' = pos /\ walked' = walked) ]_vars

\* C7: a walked record whose name_size is 0, or claims more than the
\* declared size leaves after reserving 5 bytes, is the last record walked,
\* is reported as TruncatedName at its entry offset, has nothing read after
\* its name_size field and is not collected.
C7_TruncatedName ==
    \A i \in DOMAIN walked :
        LET w == walked[i]
        IN  (StageNo(w.stage) >= 1
             /\ (w.name_size = 0 \/ w.off + 4 + w.name_size + 5 > size))
                => /\ i = Len(walked)
                   /\ w.stage = "namesize"
                   /\ Reported("TruncatedName", w.off)
                   /\ pos = w.off + 4
                   /\ reads[Len(reads)] = [at |-> w.off, asked |-> 4, got |-> 4]
                   /\ ~InCfg(w.off)
                   /\ pc \notin { "loop", "namesize", "name", "split", "typesize", "value",
                                  "collect" }

C7_Witness ==
    /\ pc = "done"
    /\ Len(walked) >= 2
    /\ walked[Len(walked)].stage = "namesize"
    /\ walked[Len(walked)].name_size > 0
    /\ Reported("TruncatedName", walked[Len(walked)].off)
    /\ Len(file) > walked[Len(walked)].off + 4

\* C8: a walked record whose accepted name holds no '!' is the last record
\* walked, is reported as MissingOwner at its entry offset and is not
\* collected.
C8_MissingOwner ==
    \A i \in DOMAIN walked :
        LET w == walked[i]
        IN  (StageNo(w.stage) >= 3
             /\ ~(pc = "split" /\ i = Len(walked))
             /\ LET decoded == StripNul(Utf8Decode(w.raw))
                IN  \A k \in DOMAIN decoded : decoded[k] # 33)
                => /\ i = Len(walked)
                   /\ w.stage = "named"
                   /\ Reported("MissingOwner", w.off)
                   /\ ~InCfg(w.off)
                   /\ pc \notin { "loop", "namesize", "name", "split", "typesize", "value",
                                  "collect" }

C8_Witness ==
    /\ pc = "done"
    /\ Len(walked) = 2
    /\ Reported("MissingOwner", walked[2].off)
    /\ Len(file) >= walked[2].off + 4 + walked[2].name_size + 6 + 14

\* C9: a walked record of type U8 whose value_size is not 1, or of type U32
\* whose value_size is not 4, is reported at its entry offset and never
\* collected; a walked record of type STR whose value fits inside the
\* declared size is collected, whatever its value_size, and no diagnostic
\* names it.
C9_ValueSizes ==
    \A i \in DOMAIN walked :
        LET w == walked[i]
        IN  (StageNo(w.stage) >= 5 /\ ~InProgress(i))
                => /\ ((w.type = 2 /\ w.value_size # 1) \/ (w.type = 3 /\ w.value_size # 4))
                       => /\ w.stage # "collected"
                          /\ i = Len(walked)
                          /\ ~InCfg(w.off)
                          /\ \/ Reported("ValueSizeMismatch", w.off)
                             \/ Reported("TruncatedValue", w.off)
                   /\ (w.type = 1 /\ w.off + 4 + w.name_size + 5 + w.value_size <= size)
                       => /\ w.stage = "collected"
                          /\ Len(w.value) = w.value_size
                          /\ \A j \in DOMAIN err : err[j].off # w.off

C9_Witness ==
    /\ pc = "done"
    /\ \E i \in DOMAIN walked :
           walked[i].type = 1 /\ walked[i].value_size = 0 /\ walked[i].stage = "collected"
    /\ walked[Len(walked)].type = 2
    /\ walked[Len(walked)].value_size = 2
    /\ Reported("ValueSizeMismatch", walked[Len(walked)].off)

\* The owners, and the setting names of owner o, of the records collected.
CollectedOwners == { walked[i].owner : i \in { k \in DOMAIN walked : walked[k].stage = "collected" } }

CollectedNames(o) ==
    { walked[i].name :
        i \in { k \in DOMAIN walked : walked[k].stage = "collected" /\ walked[k].owner = o } }

\* The lines printed so far are the beginning of a grouped listing: header
\* lines [owner] in strictly ascending owner order, each followed by the
\* setting lines of that owner in strictly ascending name order, each group
\* closed by one blank line once all the names of its owner are printed.
ListingWellFormed ==
    /\ out # << >> => out[1].kind = "group"
    /\ \A i \in DOMAIN out :
        LET l == out[i]
        IN  /\ l.kind = "group" =>
                /\ l.text = << 91 >> \o l.owner \o << 93 >>
                /\ l.owner \in CollectedOwners
                /\ i > 1 => out[i - 1].kind = "blank"
                /\ \A j \in 1..(i - 1) :
                       out[j].kind = "group" => StrLess(out[j].owner, l.owner)
            /\ l.kind = "setting" =>
                /\ i > 1
                /\ out[i - 1].kind \in { "group", "setting" }
                /\ out[i - 1].owner = l.owner
                /\ l.name \in CollectedNames(l.owner)
                /\ out[i - 1].kind = "setting" => StrLess(out[i - 1].name, l.name)
            /\ l.kind = "blank" =>
                /\ i > 1
                /\ out[i - 1].kind = "setting"
                /\ out[i - 1].owner = l.owner
                /\ l.text = << >>
                /\ { out[j].name : j \in { k \in 1..i : out[k].kind = "setting"
                                                       /\ out[k].owner = l.owner } }
                       = CollectedNames(l.owner)

\* Every owner has its group and the last group is closed.
ListingComplete ==
    /\ { out[i].owner : i \in { k \in DOMAIN out : out[k].kind = "group" } } = CollectedOwners
    /\ out # << >> => out[Len(out)].kind = "blank"

\* The walk ended without a diagnostic and control is in or after the render.
WalkCompleted ==
    /\ fstate = "closed"
    /\ DeclaredSize = size
    /\ ~WalkFatal
    /\ pc \in { "render", "entry", "done", "raised" }

CollectedAt(o, n) ==
    { k \in DOMAIN walked :
        walked[k].stage = "collected" /\ walked[k].owner = o /\ walked[k].name = n }

LastCollected(o, n) == CHOOSE k \in CollectedAt(o, n) : \A j \in CollectedAt(o, n) : j <= k

\* The setting lines printed for the pair (o, n).
LinesOf(o, n) ==
    { i \in DOMAIN out : out[i].kind = "setting" /\ out[i].owner = o /\ out[i].name = n }

\* The mapping holds one entry per collected pair, and it is the entry offset,
\* type and value of the last record collected for the pair.
MappingIsLastWrite ==
    /\ DOMAIN cfg = CollectedOwners
    /\ \A o \in DOMAIN cfg :
        /\ DOMAIN cfg[o] = CollectedNames(o)
        /\ \A n \in DOMAIN cfg[o] :
            LET w == walked[LastCollected(o, n)]
            IN  cfg[o][n] = [entry_offset |-> w.off, type |-> w.type, value |-> w.value]

\* The decode has ended after the render was entered.
RenderEnded == pc = "done" /\ fstate = "closed" /\ DeclaredSize = size

RECURSIVE HexValue(_)
HexValue(d) ==
    IF d = << >> THEN 0
    ELSE LET c    == d[Len(d)]
             high == HexValue(SubSeq(d, 1, Len(d) - 1))
         IN  IF high < 0 THEN -1
             ELSE IF c \in 48..57 THEN high * 16 + (c - 48)
             ELSE IF c \in 65..70 THEN high * 16 + (c - 55)
             ELSE -1

\* v written as exactly w uppercase hexadecimal digits, zero-padded.
RECURSIVE PaddedHex(_, _)
PaddedHex(v, w) ==
    IF w = 0 THEN << >>
    ELSE PaddedHex(v \div 16, w - 1)
         \o << IF v % 16 < 10 THEN 48 + (v % 16) ELSE 55 + (v % 16) >>

\* text is n, then " = ", then the tag text, then "!0x", then digits.
IsHexLine(text, n, tag, digits) == text = n \o << 32, 61, 32 >> \o tag \o << 33, 48, 120 >> \o digits

\* The part of text after n, " = ", the tag and "!0x".
HexPart(text, n, tag) == SubSeq(text, Len(n) + Len(tag) + 7, Len(text))

\* digits is v in uppercase hexadecimal without leading zeros, at most w digits.
IsShortestHex(digits, v, w) ==
    /\ Len(digits) \in 1..w
    /\ HexValue(digits) = v
    /\ Len(digits) > 1 => digits[1] # 48

\* The u8 and u32 numeric values of a stored value.
U8Of(v) == v[1]

U32Of(v) == v[1] + 256 * v[2] + 65536 * v[3] + 16777216 * v[4]

\* C12 as stated: every rendered U8 line is u8!0x and exactly 2 zero-padded
\* uppercase hexadecimal digits, every rendered U32 line u32!0x and exactly
\* 8 of them.
C12_PaddedHex ==
    \A i \in DOMAIN out :
        out[i].kind = "setting" =>
            LET e == cfg[out[i].owner][out[i].name]
            IN  /\ e.type = 2
                    => IsHexLine(out[i].text, out[i].name, << 117, 56 >>, PaddedHex(U8Of(e.value), 2))
                /\ e.type = 3
                    => IsHexLine(out[i].text, out[i].name, << 117, 51, 50 >>,
                                 PaddedHex(U32Of(e.value), 8))

\* C12 amended: every rendered U8 line is u8!0x and the 1 to 2 uppercase
\* hexadecimal digits of the value without leading zeros, every rendered
\* U32 line u32!0x and the 1 to 8 such digits of the little-endian value.
C12_ShortestHex ==
    \A i \in DOMAIN out :
        out[i].kind = "setting" =>
            LET e == cfg[out[i].owner][out[i].name]
                t == out[i].text
                n == out[i].name
            IN  /\ e.type = 2
                    => /\ IsHexLine(t, n, << 117, 56 >>, HexPart(t, n, << 117, 56 >>))
                       /\ IsShortestHex(HexPart(t, n, << 117, 56 >>), U8Of(e.value), 2)
                /\ e.type = 3
                    => /\ IsHexLine(t, n, << 117, 51, 50 >>, HexPart(t, n, << 117, 51, 50 >>))
                       /\ IsShortestHex(HexPart(t, n, << 117, 51, 50 >>), U32Of(e.value), 8)

C12_Witness ==
    /\ pc = "done"
    /\ \E i \in DOMAIN out :
           /\ out[i].kind = "setting"
           /\ cfg[out[i].owner][out[i].name].type = 2
           /\ Len(HexPart(out[i].text, out[i].name, << 117, 56 >>)) = 1
    /\ \E i \in DOMAIN out :
           /\ out[i].kind = "setting"
           /\ cfg[out[i].owner][out[i].name].type = 3
           /\ Len(HexPart(out[i].text, out[i].name, << 117, 51, 50 >>)) \in 7..8

\* C13: a walked record whose name bytes are not valid UTF-8 is reported as
\* MalformedName at its entry offset, and no exception leaves the decoder.
C13_InvalidUtf8Reported ==
    \A i \in DOMAIN walked :
        (StageNo(walked[i].stage) >= 2 /\ ~Utf8Ok(walked[i].raw))
            => (Reported("MalformedName", walked[i].off) /\ pc # "raised")

\* C14: whenever control has left parseSystemSettings, the file it opened
\* is closed.
C14_ClosedOnEveryExit == pc \in { "done", "raised" } => fstate # "open"

\* The program was run on an existing file: main got past its path checks.
RanOnFile == pc # "main" /\ \A j \in DOMAIN err : err[j].cond \notin { "NoPath", "BadPath" }

\* The container that holds no record: 4 bytes declaring the size 4.
EmptyContainer == << 4, 0, 0, 0 >>

\* C15 as stated: run on the empty container, the program prints no
\* diagnostic and no output line.
C15_EmptyContainerDecodes == (file = EmptyContainer /\ RanOnFile) => (err = << >> /\ out = << >>)

\* C15 amended: run on the empty container, the program prints the one
\* diagnostic 'Invalid file size.' and stops without opening the file and
\* without any output line.
C15_EmptyContainerRejected ==
    (file = EmptyContainer /\ RanOnFile)
        => /\ pc = "done"
           /\ err = << Diag("InvalidFileSize", -1, << >>) >>
           /\ out = << >>
           /\ fstate = "unopened"
           /\ reads = << >>
           /\ walked = << >>

C15_Witness ==
    /\ file = EmptyContainer
    /\ pc = "done"
    /\ size = 4
    /\ err = << Diag("InvalidFileSize", -1, << >>) >>

Stopped(c) == [ok |-> FALSE, cfg |-> c]

\* lines 56-116 as a function: the loop from cursor off and read position p
\* with the mapping c collected so far.
RECURSIVE WalkFrom(_, _, _, _, _)
WalkFrom(f, sz, off, p, c) ==
    IF ~LoopCond(off, sz) THEN [ok |-> TRUE, cfg |-> c]
    ELSE IF NameSizeFieldBad(off, sz) THEN Stopped(c)
    ELSE
    LET b4 == ReadBytes(f, p, 4)
    IN  IF Len(b4) # 4 THEN Stopped(c)
        ELSE
        LET nsz == UnpackU32(b4)
            raw == ReadBytes(f, p + 4, nsz)
        IN  IF NameSizeBad(off + 4, nsz, sz) THEN Stopped(c)
            ELSE IF ~Utf8Ok(raw) THEN Stopped(c)
            ELSE
            LET nm         == StripNul(Utf8Decode(raw))
                name_start == FindBang(nm)
                p2         == p + 4 + Len(raw)
                b5         == ReadBytes(f, p2, 5)
            IN  IF NameLenBad(nm, nsz) THEN Stopped(c)
                ELSE IF OwnerMissing(name_start) THEN Stopped(c)
                ELSE IF Len(b5) # 5 THEN Stopped(c)
                ELSE
                LET ty  == b5[1]
                    vsz == UnpackU32(SubSeq(b5, 2, 5))
                    off3 == AfterName(off + 4, nsz) + 5
                    v   == ReadBytes(f, p2 + 5, vsz)
                IN  IF ValueFieldBad(off3, vsz, sz) THEN Stopped(c)
                    ELSE IF ValueSizeBad(ty, v) THEN Stopped(c)
                    ELSE WalkFrom(f, sz, off3 + vsz, p2 + 5 + Len(v),
                                  CfgUpdate(c, SubSeq(nm, 1, name_start),
                                            SubSeq(nm, name_start + 2, Len(nm)),
                                            [entry_offset |-> off, type |-> ty, value |-> v]))

\* lines 152-158 and 46-116: the mapping the program collects from the file f.
DecodeFile(f) ==
    IF SizeTooSmall(Len(f)) THEN Stopped(<< >>)
    ELSE IF HeaderMismatch(UnpackU32(SubSeq(f, 1, 4)), Len(f)) THEN Stopped(<< >>)
    ELSE WalkFrom(f, Len(f), 4, 4, << >>)

\* The (owner, setting name, type, value) entries of a mapping.
EntriesOf(c) ==
    UNION { { << o, n, c[o][n].type, c[o][n].value >> : n \in DOMAIN c[o] } : o \in DOMAIN c }

\* The UTF-8 bytes of a text.
RECURSIVE Utf8Encode(_)
Utf8Encode(t) ==
    IF t = << >> THEN << >>
    ELSE LET c == t[1]
         IN  (IF c < 128 THEN << c >>
              ELSE IF c < 2048 THEN << 192 + (c \div 64), 128 + (c % 64) >>
              ELSE IF c < 65536
                   THEN << 224 + (c \div 4096), 128 + ((c \div 64) % 64), 128 + (c % 64) >>
              ELSE << 240 + (c \div 262144), 128 + ((c \div 4096) % 64),
                      128 + ((c \div 64) % 64), 128 + (c % 64) >>)
             \o Utf8Encode(Tail(t))

\* The record of the format for one entry: name_size, "owner!name" and its
\* NUL terminator, type, value_size, value.
EncodeEntry(o, n, e) == Rec(Utf8Encode(o \o << 33 >> \o n) \o << 0 >>, e.type, e.value)

\* The records of the entries of owner o, for its names in the order ns.
RECURSIVE EncodeNames(_, _, _)
EncodeNames(c, o, ns) ==
    IF ns = << >> THEN << >>
    ELSE EncodeEntry(o, Head(ns), c[o][Head(ns)]) \o EncodeNames(c, o, Tail(ns))

\* The records of all entries, for the owners in the order os.
RECURSIVE EncodeOwners(_, _)
EncodeOwners(c, os) ==
    IF os = << >> THEN << >>
    ELSE EncodeNames(c, Head(os), SortedKeys(DOMAIN c[Head(os)])) \o EncodeOwners(c, Tail(os))

\* The container of the format that holds the entries of the mapping c.
EncodeContainer(c) ==
    LET body == EncodeOwners(c, SortedKeys(DOMAIN c))
    IN  PackU32(Len(body) + 4) \o body

\* C17: after a walk that ended without a diagnostic, encoding the collected
\* entries into a container and decoding it again yields the same set of
\* (owner, setting name, type, value) entries.
C17_RoundTrip ==
    WalkCompleted =>
        LET again == DecodeFile(EncodeContainer(cfg))
        IN  again.ok /\ EntriesOf(again.cfg) = EntriesOf(cfg)

\* An UnknownType diagnostic was printed.
UnknownReported == \E j \in DOMAIN err : err[j].cond = "UnknownType"

\* The owner and the setting name of the mapping entry collected at off.
OwnerAt(off) == CHOOSE o \in DOMAIN cfg : \E n \in DOMAIN cfg[o] : cfg[o][n].entry_offset = off

NameAt(off) == CHOOSE n \in DOMAIN cfg[OwnerAt(off)] : cfg[OwnerAt(off)][n].entry_offset = off

\* C18: once the render has reported an entry of unknown type the program
\* has ended; the output holds no line of that entry, no line of an entry of
\* the same owner whose name sorts after it, no blank line closing that
\* owner's group and no line of a group whose owner sorts after it.
C18_RenderStopsAtUnknownType ==
    \A j \in DOMAIN err :
        err[j].cond = "UnknownType" =>
            LET o == OwnerAt(err[j].off)
                n == NameAt(err[j].off)
            IN  /\ pc = "done"
                /\ j = Len(err)
                /\ cfg[o][n].type \notin { 1, 2, 3 }
                /\ err[j].args = << cfg[o][n].type >>
                /\ out # << >>
                /\ out[Len(out)].kind # "blank"
                /\ out[Len(out)].owner = o
                /\ \A i \in DOMAIN out :
                    /\ out[i].kind = "group" => (out[i].owner = o \/ StrLess(out[i].owner, o))
                    /\ out[i].kind = "blank" => StrLess(out[i].owner, o)
                    /\ out[i].kind = "setting" =>
                           \/ StrLess(out[i].owner, o)
                           \/ out[i].owner = o /\ StrLess(out[i].name, n)

C18_Witness ==
    /\ UnknownReported
    /\ pc = "done"
    /\ LET o == OwnerAt(err[Len(err)].off)
           n == NameAt(err[Len(err)].off)
       IN  /\ \E o2 \in DOMAIN cfg : StrLess(o, o2)
           /\ \E n2 \in DOMAIN cfg[o] : StrLess(n, n2)

\* Every read issued so far asked only for bytes below the declared size,
\* got all of them, and started where the previous read ended.
ReadsInOrder ==
    \A k \in DOMAIN reads :
        /\ reads[k].asked >= 0
        /\ reads[k].at + reads[k].asked <= DeclaredSize
        /\ reads[k].got = reads[k].asked
        /\ reads[k].at = (IF k = 1 THEN 0 ELSE reads[k - 1].at + reads[k - 1].asked)

\* The state part of C19.
CursorInBounds ==
    WalkEntered =>
        /\ 4 <= offset
        /\ offset <= DeclaredSize
        /\ offset <= pos
        /\ pos <= DeclaredSize
        /\ pc = "loop" => offset = pos
        /\ ReadsInOrder

\* C19: with a matching header, in every state of the walk the cursor is
\* between 4 and the declared size, at the head of each loop iteration it
\* equals the number of bytes read from the file, every read asks only for
\* bytes below the declared size, is never short and starts where the
\* previous one ended; and no step makes the cursor smaller.
C19_CursorAndReads == [](CursorInBounds) /\ [][WalkEntered => offset' >= offset]_vars

C19_Witness ==
    /\ pc = "done"
    /\ WalkEntered
    /\ err = << >>
    /\ Len(walked) = 3
    /\ Len(reads) = 13
    /\ offset = size

\* The cursor at the end of the iteration of walked[i]: the entry offset of the
\* next iteration, or the current cursor for the last one.
EndOf(i) == IF i < Len(walked) THEN walked[i + 1].off ELSE offset

\* The walk has left its loop: normally, by a break or by an exception.
WalkOver == pc \in { "close", "render", "entry", "done", "raised" }

\* The state part of C20: every iteration that did not abort moved the cursor
\* by at least 10 bytes, and there are at most (size - 4) / 10 of them.
IterationsAdvance ==
    WalkEntered =>
        LET full == { i \in DOMAIN walked : walked[i].stage = "collected" }
        IN  /\ \A i \in full : EndOf(i) - walked[i].off >= 10
            /\ \A i \in DOMAIN walked : i < Len(walked) => i \in full
            /\ Cardinality(full) * 10 <= size - 4

\* C20: with a matching header the walk leaves its loop after finitely many
\* steps; every iteration that does not abort advances the cursor by at
\* least 10 bytes, so at most (size - 4) / 10 iterations do not abort.
C20_WalkTerminates == [](IterationsAdvance) /\ (WalkEntered ~> WalkOver)

C20_Witness ==
    /\ WalkEntered
    /\ WalkOver
    /\ Len(walked) = 2
    /\ walked[2].stage = "collected"
    /\ \E i \in DOMAIN walked : EndOf(i) - walked[i].off = 13

====
